---- MODULE Spec2Model ----
(***************************************************************************)
(* Lookup tables of PokerRL/game/_/look_up_table.py: the table generators *)
(* (_LutGetterLeduc, _LutGetterHoldem, _LutGetterPLO), the table store     *)
(* (_LutHolderBase and its three subclasses) and the store's query API.    *)
(*                                                                         *)
(* Conventions.  A numpy array indexed by a value (a card id, a range      *)
(* index, a slot) is a function over 0..n-1; a row and a caller's array is *)
(* a sequence, so column j of the source is position j+1 here.  A 2D card  *)
(* is <<rank, suit>>.                                                      *)
(*                                                                         *)
(* The decks of the two-card and four-card variants are scaled down (the   *)
(* source's 13 x 4 = 52 cards give C(52,4) = 270725 rows); the literals    *)
(* 52 and 20825 of _LutGetterPLO are scaled with the deck, see             *)
(* PLO_N_INDEXES and PLO_MEMBERSHIP_WIDTH.  The single-card variant has    *)
(* its real size (3 ranks, 2 suits).                                       *)
(***************************************************************************)
EXTENDS Integers, Sequences, FiniteSets, TLC

\* ------------------------------------------------------------- bounds
\* ranks of the scaled two-card deck (HoldemRanks x HOLDEM_N_SUITS cards)
HoldemRanks == 4
\* ranks of the scaled four-card deck (PLORanks x PLO_N_SUITS cards)
PLORanks == 3
\* longest array handed to the batch conversions
MaxBatch == 2
\* writes a caller makes into one returned array
MaxWrites == 1

\* ------------------------------------------------- external constants
\* Poker.PREFLOP .. Poker.RIVER, Poker.CARD_NOT_DEALT_TOKEN_1D / _2D
PREFLOP == 0
FLOP == 1
TURN == 2
RIVER == 3
CARD_NOT_DEALT_TOKEN_1D == -1
CARD_NOT_DEALT_TOKEN_2D == <<CARD_NOT_DEALT_TOKEN_1D, CARD_NOT_DEALT_TOKEN_1D>>
\* np.full(..., fill_value=-2)
FILL_VALUE == -2
HOLDEM_N_SUITS == 2
PLO_N_SUITS == 2

\* ------------------------------------------------------------ helpers
Range(s) == {s[i] : i \in DOMAIN s}
Max(S) == CHOOSE x \in S : \A y \in S : y <= x
Min(S) == CHOOSE x \in S : \A y \in S : x <= y

\* np.int8 storage: values wrap modulo 2^8
Int8(x) == ((x + 128) % 256) - 128

\* range(lo, hi) as a sequence
Arange(lo, hi) == [i \in 1..(IF hi > lo THEN hi - lo ELSE 0) |-> lo + i - 1]

RECURSIVE Factorial(_)
Factorial(n) == IF n <= 0 THEN 1 ELSE n * Factorial(n - 1)

RECURSIVE FallingProduct(_, _)
FallingProduct(n, k) == IF k <= 0 THEN 1 ELSE n * FallingProduct(n - 1, k - 1)

\* scipy.special.comb(N, k, exact=True, repetition=False)
comb(N, k) == IF k > N \/ N < 0 \/ k < 0 THEN 0 ELSE FallingProduct(N, k) \div Factorial(k)

\* PokerRange.get_range_size(n_hole_cards, n_cards_in_deck): n choose k in
\* exact integers, by the multiplicative recurrence
RECURSIVE get_range_size(_, _)
get_range_size(n_hole_cards, n_cards_in_deck) ==
    IF n_hole_cards <= 0 THEN 1
    ELSE IF n_hole_cards > n_cards_in_deck THEN 0
    ELSE (get_range_size(n_hole_cards - 1, n_cards_in_deck)
            * (n_cards_in_deck - n_hole_cards + 1)) \div n_hole_cards

\* ----------------------------------------------------------------- Rules
MakeRules(variant, n_ranks, n_suits, n_cards, n_hole, suits_matter, flop, turn, river, rounds) ==
    [ variant |-> variant, N_RANKS |-> n_ranks, N_SUITS |-> n_suits,
      N_CARDS_IN_DECK |-> n_cards, N_HOLE_CARDS |-> n_hole,
      SUITS_MATTER |-> suits_matter,
      N_FLOP_CARDS |-> flop, N_TURN_CARDS |-> turn, N_RIVER_CARDS |-> river,
      ALL_ROUNDS_LIST |-> rounds,
      RANGE_SIZE |-> get_range_size(n_hole, n_cards) ]

\* rules.ROUND_BEFORE
ROUND_BEFORE(r) == IF r = PREFLOP THEN PREFLOP ELSE r - 1

LeducRules == MakeRules("Leduc", 3, 2, 6, 1, FALSE, 1, 0, 0, <<PREFLOP, FLOP>>)
HoldemRules == MakeRules("Holdem", HoldemRanks, HOLDEM_N_SUITS, HoldemRanks * HOLDEM_N_SUITS, 2, TRUE,
                         3, 1, 1, <<PREFLOP, FLOP, TURN, RIVER>>)
PLORules == MakeRules("PLO", PLORanks, PLO_N_SUITS, PLORanks * PLO_N_SUITS, 4, TRUE,
                      3, 1, 1, <<PREFLOP, FLOP, TURN, RIVER>>)

\* the rules of the supported variants
SupportedRules == {LeducRules, HoldemRules, PLORules}

\* rules whose deck size disagrees with N_RANKS * N_SUITS
InconsistentRules ==
    { MakeRules("Leduc", 3, 2, 7, 1, FALSE, 1, 0, 0, <<PREFLOP, FLOP>>) }

RulesConsistent(R) ==
    /\ R.N_CARDS_IN_DECK = R.N_RANKS * R.N_SUITS
    /\ R.N_HOLE_CARDS <= R.N_CARDS_IN_DECK

\* the literal 52 of _LutGetterPLO.get_idx_2_hole_card_LUT (13 x 4), scaled
PLO_N_INDEXES == PLORanks * PLO_N_SUITS
\* the literal 4 of the same function
PLO_N_COMB == 4
\* the literal 20825 = 51*50*49/6 of get_card_in_what_range_idxs_LUT, scaled
PLO_MEMBERSHIP_WIDTH ==
    ((PLO_N_INDEXES - 1) * (PLO_N_INDEXES - 2) * (PLO_N_INDEXES - 3)) \div 6

\* what np.empty's buffer may hold before it is written
UninitValues == {0, 1, 127}

\* -------------------------------------------------- card conversion
\* _get_1d_card multiplying the rank by N_RANKS instead of N_SUITS
Mut_Leduc_get_1d_card(R, card_2d) == card_2d[1] * R.N_RANKS + card_2d[2]
\* _LutGetterLeduc._get_1d_card
Leduc_get_1d_card(R, card_2d) == card_2d[1] * R.N_SUITS + card_2d[2]

\* _LutGetterLeduc._get_2d_card
Leduc_get_2d_card(R, card_1d) == <<Int8(card_1d \div R.N_SUITS), Int8(card_1d % R.N_SUITS)>>

\* CppLibHoldemLuts.get_2d_card / get_1d_card (the combinatorics backend)
Cpp_get_2d_card(R, card_1d) == <<card_1d \div R.N_SUITS, card_1d % R.N_SUITS>>
Cpp_get_1d_card(R, card_2d) == card_2d[1] * R.N_SUITS + card_2d[2]

Cards1D(R) == 0..(R.N_CARDS_IN_DECK - 1)
Cards2D(R) == (0..(R.N_RANKS - 1)) \X (0..(R.N_SUITS - 1))

\* get_1d_card_2_2d_card_LUT: np.full(-2), then the loop over the deck
get_1d_card_2_2d_card_LUT(R) ==
    [c \in Cards1D(R) |->
        IF c \in 0..(R.N_CARDS_IN_DECK - 1)
        THEN LET card_2d == IF R.variant = "Leduc" THEN Leduc_get_2d_card(R, c)
                            ELSE Cpp_get_2d_card(R, c)
             IN <<Int8(card_2d[1]), Int8(card_2d[2])>>
        ELSE <<FILL_VALUE, FILL_VALUE>>]

\* get_2d_card_2_1d_card_LUT: np.full(-2), then the loop over ranks and suits
get_2d_card_2_1d_card_LUT(R) ==
    [rs \in Cards2D(R) |->
        IF rs \in (0..(R.N_RANKS - 1)) \X (0..(R.N_SUITS - 1))
        THEN Int8(IF R.variant = "Leduc" THEN Leduc_get_1d_card(R, rs)
                  ELSE Cpp_get_1d_card(R, rs))
        ELSE FILL_VALUE]

\* ------------------------------------------ hole cards <-> range index
\* itertools.combinations(range(n), r).  Its state is the index tuple `ind`;
\* the generator is exhausted when no index can move
combinations_done(n, r, ind) == \A i \in 1..r : ind[i] = (i - 1) + n - r
\* one turn of its while loop: the rightmost movable index is incremented and
\* the indexes after it follow it
combinations_next(n, r, ind) ==
    LET i == Max({j \in 1..r : ind[j] # (j - 1) + n - r})
        v == ind[i]
    IN SubSeq(ind, 1, i - 1) \o [j \in 1..(r - i + 1) |-> v + j]
\* the tuples it yields from `ind` on, at most `budget` of them
RECURSIVE combinations_run(_, _, _, _)
combinations_run(n, r, ind, budget) ==
    IF budget <= 1 THEN <<ind>>
    ELSE LET half == budget \div 2
             head == combinations_run(n, r, ind, half)
             last == head[Len(head)]
         IN IF combinations_done(n, r, last) THEN head
            ELSE head \o combinations_run(n, r, combinations_next(n, r, last), budget - half)

combinations(n, r) ==
    IF r > n THEN << >>
    ELSE combinations_run(n, r, Arange(0, r) \o << >>, FallingProduct(n, r))

\* a sequence of rows as a table indexed from 0
AsTable(rows) == [i \in 0..(Len(rows) - 1) |-> rows[i + 1]]

\* the body executions of `for c1 in range(cmax): for c2 in range(c1 + 1, cmax)`
RECURSIVE pair_loop_c2(_, _, _)
pair_loop_c2(c1, c2, cmax) ==
    IF c2 >= cmax THEN <<>> ELSE << <<c1, c2>> >> \o pair_loop_c2(c1, c2 + 1, cmax)
RECURSIVE pair_loop_c1(_, _)
pair_loop_c1(c1, cmax) ==
    IF c1 >= cmax THEN <<>> ELSE pair_loop_c2(c1, c1 + 1, cmax) \o pair_loop_c1(c1 + 1, cmax)

\* the body executions of the four nested loops of get_hole_card_2_idx_LUT
RECURSIVE plo_loop_i4(_, _, _, _, _)
plo_loop_i4(i1, i2, i3, i4, cmax) ==
    IF i4 >= cmax THEN <<>>
    ELSE << <<i1, i2, i3, i4>> >> \o plo_loop_i4(i1, i2, i3, i4 + 1, cmax)
RECURSIVE plo_loop_i3(_, _, _, _)
plo_loop_i3(i1, i2, i3, cmax) ==
    IF i3 >= cmax THEN <<>>
    ELSE plo_loop_i4(i1, i2, i3, i3 + 1, cmax) \o plo_loop_i3(i1, i2, i3 + 1, cmax)
RECURSIVE plo_loop_i2(_, _, _)
plo_loop_i2(i1, i2, cmax) ==
    IF i2 >= cmax THEN <<>>
    ELSE plo_loop_i3(i1, i2, i2 + 1, cmax) \o plo_loop_i2(i1, i2 + 1, cmax)
RECURSIVE plo_loop_i1(_, _)
plo_loop_i1(i1, cmax) ==
    IF i1 >= cmax THEN <<>>
    ELSE plo_loop_i2(i1, i1 + 1, cmax) \o plo_loop_i1(i1 + 1, cmax)

\* lut[visit] = n; n += 1 over the body executions `visits`, on a table of `fill`
NumberVisits(shape, visits, fill) ==
    LET visited == Range(visits) IN
    [t \in shape |-> IF t \in visited THEN (CHOOSE n \in 1..Len(visits) : visits[n] = t) - 1
                     ELSE fill]

\* _LutGetterLeduc.get_idx_2_hole_card_LUT
Leduc_get_idx_2_hole_card_LUT(R) == [i \in 0..(R.N_CARDS_IN_DECK - 1) |-> <<i>>]
\* _LutGetterLeduc.get_hole_card_2_idx_LUT: shape (N, 1), indexed [c1, 0]
Leduc_get_hole_card_2_idx_LUT(R) == [t \in (0..(R.N_CARDS_IN_DECK - 1)) \X {0} |-> t[1]]

\* CppLibHoldemLuts.get_idx_2_hole_card_lut / get_hole_card_2_idx_lut
Cpp_get_idx_2_hole_card_lut(R) == AsTable(pair_loop_c1(0, R.N_CARDS_IN_DECK))
Cpp_get_hole_card_2_idx_lut(R) ==
    NumberVisits(Cards1D(R) \X Cards1D(R), pair_loop_c1(0, R.N_CARDS_IN_DECK), FILL_VALUE)

\* get_idx_2_hole_card_LUT with the combinations in descending order
Mut_PLO_get_idx_2_hole_card_LUT(R) ==
    LET rows == combinations(PLO_N_INDEXES, PLO_N_COMB) IN
    [i \in 0..(Len(rows) - 1) |-> rows[Len(rows) - i]]
\* _LutGetterPLO.get_idx_2_hole_card_LUT
PLO_get_idx_2_hole_card_LUT(R) == AsTable(combinations(PLO_N_INDEXES, PLO_N_COMB))

\* get_hole_card_2_idx_LUT with n incremented before the assignment
Mut_PLO_get_hole_card_2_idx_LUT(R) ==
    LET cmax == R.N_CARDS_IN_DECK
        lut == NumberVisits((0..(cmax - 1)) \X (0..(cmax - 1)) \X (0..(cmax - 1)) \X (0..(cmax - 1)),
                            plo_loop_i1(0, cmax), FILL_VALUE)
    IN [t \in DOMAIN lut |-> IF lut[t] = FILL_VALUE THEN FILL_VALUE ELSE lut[t] + 1]
\* _LutGetterPLO.get_hole_card_2_idx_LUT
PLO_get_hole_card_2_idx_LUT(R) ==
    LET cmax == R.N_CARDS_IN_DECK IN
    NumberVisits((0..(cmax - 1)) \X (0..(cmax - 1)) \X (0..(cmax - 1)) \X (0..(cmax - 1)),
                 plo_loop_i1(0, cmax), FILL_VALUE)

get_idx_2_hole_card_LUT(R) ==
    CASE R.variant = "Leduc" -> Leduc_get_idx_2_hole_card_LUT(R)
      [] R.variant = "Holdem" -> Cpp_get_idx_2_hole_card_lut(R)
      [] R.variant = "PLO" -> PLO_get_idx_2_hole_card_LUT(R)

get_hole_card_2_idx_LUT(R) ==
    CASE R.variant = "Leduc" -> Leduc_get_hole_card_2_idx_LUT(R)
      [] R.variant = "Holdem" -> Cpp_get_hole_card_2_idx_lut(R)
      [] R.variant = "PLO" -> PLO_get_hole_card_2_idx_LUT(R)

\* ----------------------------------------------------- card membership
\* the range indexes, ascending, whose row of idx2hc holds card c
RowsHolding(c, idx2hc, n_rows) ==
    SelectSeq(Arange(0, n_rows), LAMBDA i : c \in Range(idx2hc[i]))

\* _LutGetterLeduc.get_card_in_what_range_idxs_LUT
Leduc_get_card_in_what_range_idxs_LUT(R) == [c \in 0..(R.RANGE_SIZE - 1) |-> <<c>>]

\* _LutGetterHoldem.get_card_in_what_range_idxs_LUT, before its assert
Holdem_get_card_in_what_range_idxs_LUT(R, idx2hc) ==
    [c \in Cards1D(R) |->
        LET hits == RowsHolding(c, idx2hc, R.RANGE_SIZE) IN
        [n \in 1..(R.N_CARDS_IN_DECK - 1) |-> IF n <= Len(hits) THEN hits[n] ELSE FILL_VALUE]]

\* get_card_in_what_range_idxs_LUT storing items[1], the columns, for items[0]
Mut_PLO_get_card_in_what_range_idxs_LUT(R, idx2hc) ==
    [c \in Cards1D(R) |->
        LET rows == RowsHolding(c, idx2hc, Cardinality(DOMAIN idx2hc)) IN
        [n \in 1..Len(rows) |-> (CHOOSE j \in 1..Len(idx2hc[rows[n]]) : idx2hc[rows[n]][j] = c) - 1]]
\* _LutGetterPLO.get_card_in_what_range_idxs_LUT, before its assert:
\* items = np.where(c == _idx2hc_lut); lut[c,] = items[0]
PLO_get_card_in_what_range_idxs_LUT(R, idx2hc) ==
    [c \in Cards1D(R) |-> RowsHolding(c, idx2hc, Cardinality(DOMAIN idx2hc))]

get_card_in_what_range_idxs_LUT(R, idx2hc) ==
    CASE R.variant = "Leduc" -> Leduc_get_card_in_what_range_idxs_LUT(R)
      [] R.variant = "Holdem" -> Holdem_get_card_in_what_range_idxs_LUT(R, idx2hc)
      [] R.variant = "PLO" -> PLO_get_card_in_what_range_idxs_LUT(R, idx2hc)

\* the exception get_card_in_what_range_idxs_LUT ends with, or "none"
card_in_what_range_idxs_raises(R, idx2hc) ==
    CASE R.variant = "Leduc" -> "none"
      [] R.variant = "Holdem" ->
            IF \E c \in Cards1D(R) :
                  Len(RowsHolding(c, idx2hc, R.RANGE_SIZE)) > R.N_CARDS_IN_DECK - 1
            THEN "IndexError"
            ELSE IF \E c \in Cards1D(R) :
                  FILL_VALUE \in Range(Holdem_get_card_in_what_range_idxs_LUT(R, idx2hc)[c])
            THEN "AssertionError" ELSE "none"
      [] R.variant = "PLO" ->
            IF \E c \in Cards1D(R) :
                  Len(PLO_get_card_in_what_range_idxs_LUT(R, idx2hc)[c]) # PLO_MEMBERSHIP_WIDTH
            THEN "ValueError"
            ELSE IF \E c \in Cards1D(R) :
                  FILL_VALUE \in Range(PLO_get_card_in_what_range_idxs_LUT(R, idx2hc)[c])
            THEN "AssertionError" ELSE "none"

\* ------------------------------------------------ private observations
\* the slots _LutGetterBase.get_range_idx_to_private_obs_LUT sets to 1 for a row
Base_slots(R, bucketing, hc, c1d2d) ==
    LET D == R.N_SUITS + R.N_RANKS IN
    UNION { {D * c_id + c1d2d[hc[c_id + 1]][1]}
              \cup (IF R.SUITS_MATTER /\ ~bucketing
                    THEN {D * c_id + R.N_RANKS + c1d2d[hc[c_id + 1]][2]} ELSE {})
            : c_id \in 0..(R.N_HOLE_CARDS - 1) }

\* _LutGetterBase.get_range_idx_to_private_obs_LUT (np.zeros, then the loop)
Base_get_range_idx_to_private_obs_LUT(R, bucketing, idx2hc, c1d2d) ==
    LET D == R.N_SUITS + R.N_RANKS IN
    [range_idx \in 0..(R.RANGE_SIZE - 1) |->
        [s \in 0..(R.N_HOLE_CARDS * D - 1) |->
            IF s \in Base_slots(R, bucketing, idx2hc[range_idx], c1d2d) THEN 1 ELSE 0]]

\* the slots the unrolled four-card loop of _LutGetterPLO sets to 1 for a row
PLO_slots(R, bucketing, hc, c1d2d) ==
    LET D == R.N_SUITS + R.N_RANKS IN
    UNION { {D * c_id + c1d2d[hc[c_id + 1]][1]}
              \cup (IF ~bucketing
                    THEN {D * c_id + R.N_RANKS + c1d2d[hc[c_id + 1]][2]} ELSE {})
            : c_id \in 0..3 }

\* _LutGetterPLO.get_range_idx_to_private_obs_LUT: lut and priv_o come from
\* np.empty, so a slot the loop does not write holds `uninit`
PLO_get_range_idx_to_private_obs_LUT(R, bucketing, idx2hc, c1d2d, uninit) ==
    LET D == R.N_SUITS + R.N_RANKS IN
    [range_idx \in 0..(R.RANGE_SIZE - 1) |->
        [s \in 0..(R.N_HOLE_CARDS * D - 1) |->
            IF range_idx \in DOMAIN idx2hc
               /\ s \in PLO_slots(R, bucketing, idx2hc[range_idx], c1d2d)
            THEN 1 ELSE uninit]]

get_range_idx_to_private_obs_LUT(R, bucketing, idx2hc, c1d2d, uninit) ==
    IF R.variant = "PLO"
    THEN PLO_get_range_idx_to_private_obs_LUT(R, bucketing, idx2hc, c1d2d, uninit)
    ELSE Base_get_range_idx_to_private_obs_LUT(R, bucketing, idx2hc, c1d2d)

\* whether building the observation table indexes outside an array
private_obs_raises(R, idx2hc, c1d2d) ==
    LET D == R.N_SUITS + R.N_RANKS
        W == R.N_HOLE_CARDS * D
        n_cols == IF R.variant = "PLO" THEN 4 ELSE R.N_HOLE_CARDS
        rows == IF R.variant = "PLO" THEN DOMAIN idx2hc ELSE 0..(R.RANGE_SIZE - 1)
    IN \E range_idx \in rows :
          \/ range_idx \notin DOMAIN idx2hc
          \/ range_idx >= R.RANGE_SIZE
          \/ Len(idx2hc[range_idx]) < n_cols
          \/ \E j \in 1..n_cols : idx2hc[range_idx][j] \notin DOMAIN c1d2d
          \/ \E s \in (IF R.variant = "PLO"
                       THEN PLO_slots(R, FALSE, idx2hc[range_idx], c1d2d)
                       ELSE Base_slots(R, FALSE, idx2hc[range_idx], c1d2d)) : s >= W

\* ------------------------------------------------- round combinatorics
\* _LutGetterBase.get_n_cards_out_at_LUT
get_n_cards_out_at_LUT(R) ==
    [r \in {PREFLOP, FLOP, TURN, RIVER} |->
        CASE r = PREFLOP -> 0
          [] r = FLOP -> R.N_FLOP_CARDS
          [] r = TURN -> R.N_FLOP_CARDS + R.N_TURN_CARDS
          [] r = RIVER -> R.N_FLOP_CARDS + R.N_TURN_CARDS + R.N_RIVER_CARDS]

\* _LutGetterBase.get_n_cards_dealt_in_transition_to_LUT
get_n_cards_dealt_in_transition_to_LUT(R) ==
    [r \in {PREFLOP, FLOP, TURN, RIVER} |->
        CASE r = PREFLOP -> 0
          [] r = FLOP -> R.N_FLOP_CARDS
          [] r = TURN -> R.N_TURN_CARDS
          [] r = RIVER -> R.N_RIVER_CARDS]

\* _LutGetterBase.get_n_boards_LUT
get_n_boards_LUT(R) ==
    LET _c == get_n_cards_dealt_in_transition_to_LUT(R) IN
    [r \in Range(R.ALL_ROUNDS_LIST) |-> comb(R.N_RANKS * R.N_SUITS, _c[r])]

\* get_n_board_branches_LUT subtracting the cards out at r, not at ROUND_BEFORE[r]
Mut_get_n_board_branches_LUT(R) ==
    LET dealt == get_n_cards_dealt_in_transition_to_LUT(R)
        out_at == get_n_cards_out_at_LUT(R)
    IN [r \in {PREFLOP} \cup Range(R.ALL_ROUNDS_LIST) |->
          IF r = PREFLOP THEN 0
          ELSE get_range_size(dealt[r], R.N_CARDS_IN_DECK - out_at[r] - R.N_HOLE_CARDS)]
\* _LutGetterBase.get_n_board_branches_LUT
get_n_board_branches_LUT(R) ==
    LET _N_CARDS_DEALT_IN_TRANSITION_TO_LUT == get_n_cards_dealt_in_transition_to_LUT(R)
        _N_CARDS_OUT_AT == get_n_cards_out_at_LUT(R)
    IN [r \in {PREFLOP} \cup Range(R.ALL_ROUNDS_LIST) |->
          IF r = PREFLOP THEN 0
          ELSE LET nc == R.N_CARDS_IN_DECK - _N_CARDS_OUT_AT[ROUND_BEFORE(r)] - R.N_HOLE_CARDS
               IN get_range_size(_N_CARDS_DEALT_IN_TRANSITION_TO_LUT[r], nc)]

\* ----------------------------------------------------------------- state
VARIABLES
    phase,      \* "new" | "ready" | "failed": the store's construction
    rules,      \* env_cls.RULES
    error,      \* the exception __init__ ended with, or "none"
    LUT_1DCARD_2_2DCARD,
    LUT_2DCARD_2_1DCARD,
    LUT_RANGE_IDX_TO_PRIVATE_OBS,
    LUT_RANGE_IDX_TO_PRIVATE_OBS_PF,
    LUT_IDX_2_HOLE_CARDS,
    LUT_HOLE_CARDS_2_IDX,
    LUT_CARD_IN_WHAT_RANGE_IDXS,
    DICT_LUT_N_BOARDS,
    DICT_LUT_N_CARDS_OUT,
    DICT_LUT_CARDS_DEALT_IN_TRANSITION_TO,
    DICT_LUT_N_BOARD_BRANCHES,
    pc,         \* "idle" | "returned": the caller's position
    op,         \* the query that returned last
    arg,        \* its argument
    ret,        \* what it returned: the value and the buffer it lives in
    indexed,    \* the subscripts the call applied to a conversion table
    nwrites     \* writes the caller made into ret

tables == << LUT_1DCARD_2_2DCARD, LUT_2DCARD_2_1DCARD, LUT_RANGE_IDX_TO_PRIVATE_OBS,
             LUT_RANGE_IDX_TO_PRIVATE_OBS_PF, LUT_IDX_2_HOLE_CARDS, LUT_HOLE_CARDS_2_IDX,
             LUT_CARD_IN_WHAT_RANGE_IDXS, DICT_LUT_N_BOARDS, DICT_LUT_N_CARDS_OUT,
             DICT_LUT_CARDS_DEALT_IN_TRANSITION_TO, DICT_LUT_N_BOARD_BRANCHES >>
call == << pc, op, arg, ret, indexed, nwrites >>
vars == << phase, rules, error, tables, call >>

\* a table __init__ has not assigned
Unbuilt == << >>

\* values a caller writes into an array it was handed
WriteValues == {CARD_NOT_DEALT_TOKEN_1D, 0}

\* ------------------------------------------------- arrays and buffers
\* a returned value: `dims` is 0 for a scalar; `table`/`row` name the cached
\* table row whose buffer the array shares ("none": it owns its buffer)
Own(v, dims) == [val |-> v, dims |-> dims, table |-> "none", row |-> 0]
\* basic indexing lut[i] of a 2-D table: a view of row i
RowView(name, lut, i) == [val |-> lut[i], dims |-> 1, table |-> name, row |-> i]
np_copy(a) == Own(a.val, a.dims)
NoRet == Own(0, 0)

\* ------------------------------------------------------- construction
InitWith(RS) ==
    /\ phase = "new"
    /\ rules \in RS
    /\ error = "none"
    /\ LUT_1DCARD_2_2DCARD = Unbuilt
    /\ LUT_2DCARD_2_1DCARD = Unbuilt
    /\ LUT_RANGE_IDX_TO_PRIVATE_OBS = Unbuilt
    /\ LUT_RANGE_IDX_TO_PRIVATE_OBS_PF = Unbuilt
    /\ LUT_IDX_2_HOLE_CARDS = Unbuilt
    /\ LUT_HOLE_CARDS_2_IDX = Unbuilt
    /\ LUT_CARD_IN_WHAT_RANGE_IDXS = Unbuilt
    /\ DICT_LUT_N_BOARDS = Unbuilt
    /\ DICT_LUT_N_CARDS_OUT = Unbuilt
    /\ DICT_LUT_CARDS_DEALT_IN_TRANSITION_TO = Unbuilt
    /\ DICT_LUT_N_BOARD_BRANCHES = Unbuilt
    /\ pc = "idle"
    /\ op = "none"
    /\ arg = << >>
    /\ ret = NoRet
    /\ indexed = {}
    /\ nwrites = 0

Init == InitWith(SupportedRules)
InitAnyRules == InitWith(SupportedRules \cup InconsistentRules)

\* _LutHolderBase.__init__: the tables in the order they are assigned; an
\* exception leaves the later ones unassigned
Construct ==
    /\ phase = "new"
    /\ \E uninit \in UninitValues :
        LET R == rules
            c1d2d == get_1d_card_2_2d_card_LUT(R)
            c2d1d == get_2d_card_2_1d_card_LUT(R)
            idx2hc == get_idx_2_hole_card_LUT(R)
            obs_exc == IF private_obs_raises(R, idx2hc, c1d2d) THEN "IndexError" ELSE "none"
            mem_exc == card_in_what_range_idxs_raises(R, idx2hc)
            failStep == IF obs_exc # "none" THEN 3 ELSE IF mem_exc # "none" THEN 7 ELSE 0
            Built(step, value) == IF failStep = 0 \/ step < failStep THEN value ELSE Unbuilt
        IN  /\ phase' = IF failStep = 0 THEN "ready" ELSE "failed"
            /\ error' = IF obs_exc # "none" THEN obs_exc ELSE mem_exc
            /\ LUT_1DCARD_2_2DCARD' = c1d2d
            /\ LUT_2DCARD_2_1DCARD' = c2d1d
            /\ LUT_RANGE_IDX_TO_PRIVATE_OBS' =
                  IF failStep = 3 THEN Unbuilt
                  ELSE get_range_idx_to_private_obs_LUT(R, FALSE, idx2hc, c1d2d, uninit)
            /\ LUT_RANGE_IDX_TO_PRIVATE_OBS_PF' =
                  IF failStep = 3 THEN Unbuilt
                  ELSE get_range_idx_to_private_obs_LUT(R, TRUE, idx2hc, c1d2d, uninit)
            /\ LUT_IDX_2_HOLE_CARDS' = Built(5, idx2hc)
            /\ LUT_HOLE_CARDS_2_IDX' = Built(6, get_hole_card_2_idx_LUT(R))
            /\ LUT_CARD_IN_WHAT_RANGE_IDXS' = Built(7, get_card_in_what_range_idxs_LUT(R, idx2hc))
            /\ DICT_LUT_N_BOARDS' = Built(8, get_n_boards_LUT(R))
            /\ DICT_LUT_N_CARDS_OUT' = Built(9, get_n_cards_out_at_LUT(R))
            /\ DICT_LUT_CARDS_DEALT_IN_TRANSITION_TO' =
                  Built(10, get_n_cards_dealt_in_transition_to_LUT(R))
            /\ DICT_LUT_N_BOARD_BRANCHES' = Built(11, get_n_board_branches_LUT(R))
    /\ UNCHANGED << rules, call >>

\* ---------------------------------------------------------- query API
\* aa = np.copy(x); aa[aa == Poker.CARD_NOT_DEALT_TOKEN_1D] = 0
MaskToken(x) == IF x = CARD_NOT_DEALT_TOKEN_1D THEN 0 ELSE x

\* _LutHolderBase.get_1d_card
get_1d_card(card_2d) ==
    IF card_2d[1] = CARD_NOT_DEALT_TOKEN_1D
    THEN Own(CARD_NOT_DEALT_TOKEN_1D, 0)
    ELSE Own(LUT_2DCARD_2_1DCARD[<<card_2d[1], card_2d[2]>>], 0)
get_1d_card_indexes(card_2d) ==
    IF card_2d[1] = CARD_NOT_DEALT_TOKEN_1D THEN {} ELSE {<<card_2d[1], card_2d[2]>>}

\* _LutHolderBase.get_1d_cards: the subscripts aa[:, 0], aa[:, 1]
get_1d_cards_indexes(cards_2d) ==
    {<<MaskToken(cards_2d[i][1]), MaskToken(cards_2d[i][2])>> : i \in 1..Len(cards_2d)}
\* get_1d_cards returning the looked-up values without the np.where on the sentinel
Mut_get_1d_cards(cards_2d) ==
    IF Len(cards_2d) = 0 THEN Own(<< >>, 1)
    ELSE Own([i \in 1..Len(cards_2d) |->
                LUT_2DCARD_2_1DCARD[<<MaskToken(cards_2d[i][1]), MaskToken(cards_2d[i][2])>>]], 1)
\* _LutHolderBase.get_1d_cards
get_1d_cards(cards_2d) ==
    IF Len(cards_2d) = 0 THEN Own(<< >>, 1)
    ELSE LET aa == [i \in 1..Len(cards_2d) |->
                        <<MaskToken(cards_2d[i][1]), MaskToken(cards_2d[i][2])>>]
         IN Own([i \in 1..Len(cards_2d) |->
                    IF cards_2d[i][1] = CARD_NOT_DEALT_TOKEN_1D
                    THEN CARD_NOT_DEALT_TOKEN_1D
                    ELSE LUT_2DCARD_2_1DCARD[aa[i]]], 1)

\* _LutHolderBase.get_2d_cards: the subscripts aa
get_2d_cards_indexes(cards_1d) == {MaskToken(cards_1d[i]) : i \in 1..Len(cards_1d)}
\* _LutHolderBase.get_2d_cards
get_2d_cards(cards_1d) ==
    IF Len(cards_1d) = 0 THEN Own(<< >>, 1)
    ELSE LET aa == [i \in 1..Len(cards_1d) |-> MaskToken(cards_1d[i])]
             cards_2d == [i \in 1..Len(cards_1d) |-> LUT_1DCARD_2_2DCARD[aa[i]]]
         IN Own([i \in 1..Len(cards_1d) |->
                    IF cards_1d[i] = CARD_NOT_DEALT_TOKEN_1D
                    THEN CARD_NOT_DEALT_TOKEN_2D ELSE cards_2d[i]], 2)

\* the list left in the caller's order, as if list.sort() were not called
Mut_list_sort(l) == l
\* list.sort() on a list of card ids
RECURSIVE list_sort(_)
list_sort(l) ==
    IF Len(l) <= 1 THEN l
    ELSE LET m == Min(Range(l))
             at == Min({i \in 1..Len(l) : l[i] = m})
         IN <<m>> \o list_sort(SubSeq(l, 1, at - 1) \o SubSeq(l, at + 1, Len(l)))

\* LutHolderLeduc / LutHolderHoldem / LutHolderPLO .get_range_idx_from_hole_cards
get_range_idx_from_hole_cards(hole_cards_2d) ==
    CASE rules.variant = "Leduc" ->
            LET c1 == get_1d_cards(hole_cards_2d).val[1]
            IN Own(LUT_HOLE_CARDS_2_IDX[<<c1, 0>>], 0)
      [] rules.variant = "Holdem" ->
            LET _c1 == LUT_2DCARD_2_1DCARD[<<hole_cards_2d[1][1], hole_cards_2d[1][2]>>]
                _c2 == LUT_2DCARD_2_1DCARD[<<hole_cards_2d[2][1], hole_cards_2d[2][2]>>]
                c1 == Min({_c1, _c2})
                c2 == Max({_c1, _c2})
            IN Own(LUT_HOLE_CARDS_2_IDX[<<c1, c2>>], 0)
      [] rules.variant = "PLO" ->
            LET list == list_sort([i \in 1..Len(hole_cards_2d) |->
                            LUT_2DCARD_2_1DCARD[<<hole_cards_2d[i][1], hole_cards_2d[i][2]>>]])
            IN Own(LUT_HOLE_CARDS_2_IDX[<<list[1], list[2], list[3], list[4]>>], 0)

\* the number of hole cards each store class reads of a row
HolderCards == CASE rules.variant = "Leduc" -> 1
                 [] rules.variant = "Holdem" -> 2
                 [] rules.variant = "PLO" -> 4

\* LutHolder*.get_2d_hole_cards_from_range_idx: np.array([...], dtype=np.int8)
get_2d_hole_cards_from_range_idx(range_idx) ==
    Own([j \in 1..HolderCards |->
            LET card == LUT_1DCARD_2_2DCARD[LUT_IDX_2_HOLE_CARDS[range_idx][j]]
            IN <<Int8(card[1]), Int8(card[2])>>], 2)

\* get_1d_hole_cards_from_range_idx without np.copy: the row itself
Mut_get_1d_hole_cards_from_range_idx(range_idx) ==
    RowView("LUT_IDX_2_HOLE_CARDS", LUT_IDX_2_HOLE_CARDS, range_idx)
\* LutHolder*.get_1d_hole_cards_from_range_idx
get_1d_hole_cards_from_range_idx(range_idx) ==
    np_copy(RowView("LUT_IDX_2_HOLE_CARDS", LUT_IDX_2_HOLE_CARDS, range_idx))

\* ------------------------------------------------------ caller inputs
Batches(S) == UNION {[1..n -> S] : n \in 0..MaxBatch}
\* legal hands: N_HOLE_CARDS distinct 2D cards in any order
Hands(R) == {h \in [1..R.N_HOLE_CARDS -> Cards2D(R)] :
                \A i, j \in 1..R.N_HOLE_CARDS : i # j => h[i] # h[j]}

Returns(name, a, r, ix) ==
    /\ pc' = "returned"
    /\ op' = name
    /\ arg' = a
    /\ ret' = r
    /\ indexed' = ix
    /\ nwrites' = 0
    /\ UNCHANGED << phase, rules, error, tables >>

Idle == phase = "ready" /\ pc = "idle"

Call_get_1d_card ==
    /\ Idle
    /\ \E card_2d \in Cards2D(rules) \cup {CARD_NOT_DEALT_TOKEN_2D} :
          Returns("get_1d_card", card_2d, get_1d_card(card_2d), get_1d_card_indexes(card_2d))

Call_get_1d_cards ==
    /\ Idle
    /\ \E cards_2d \in Batches(Cards2D(rules) \cup {CARD_NOT_DEALT_TOKEN_2D}) :
          Returns("get_1d_cards", cards_2d, get_1d_cards(cards_2d),
                  get_1d_cards_indexes(cards_2d))

Call_get_2d_cards ==
    /\ Idle
    /\ \E cards_1d \in Batches(Cards1D(rules) \cup {CARD_NOT_DEALT_TOKEN_1D}) :
          Returns("get_2d_cards", cards_1d, get_2d_cards(cards_1d),
                  get_2d_cards_indexes(cards_1d))

Call_get_range_idx_from_hole_cards ==
    /\ Idle
    /\ \E hole_cards_2d \in Hands(rules) :
          Returns("get_range_idx_from_hole_cards", hole_cards_2d,
                  get_range_idx_from_hole_cards(hole_cards_2d), {})

Call_get_2d_hole_cards_from_range_idx ==
    /\ Idle
    /\ \E range_idx \in 0..(rules.RANGE_SIZE - 1) :
          Returns("get_2d_hole_cards_from_range_idx", range_idx,
                  get_2d_hole_cards_from_range_idx(range_idx), {})

Call_get_1d_hole_cards_from_range_idx ==
    /\ Idle
    /\ \E range_idx \in 0..(rules.RANGE_SIZE - 1) :
          Returns("get_1d_hole_cards_from_range_idx", range_idx,
                  get_1d_hole_cards_from_range_idx(range_idx), {})

\* a write a[p] = v through array `a` reaches the table whose buffer it shares
WrittenThrough(name, lut, a, p, v) ==
    IF a.table = name THEN [lut EXCEPT ![a.row][p] = v] ELSE lut

\* the caller assigns a[p] = v in the array it was handed.  `ret` stays the
\* record of what the call returned; the content of a buffer the caller owns
\* is the caller's, and only a write that lands in a cached table is state
CallerWrite ==
    /\ phase = "ready"
    /\ pc = "returned"
    /\ ret.dims > 0
    /\ nwrites < MaxWrites
    /\ \E p \in 1..Len(ret.val), v \in WriteValues :
          /\ LUT_IDX_2_HOLE_CARDS' =
                WrittenThrough("LUT_IDX_2_HOLE_CARDS", LUT_IDX_2_HOLE_CARDS, ret, p, v)
          /\ LUT_1DCARD_2_2DCARD' =
                WrittenThrough("LUT_1DCARD_2_2DCARD", LUT_1DCARD_2_2DCARD, ret, p, v)
    /\ nwrites' = nwrites + 1
    /\ UNCHANGED << phase, rules, error, LUT_2DCARD_2_1DCARD, LUT_RANGE_IDX_TO_PRIVATE_OBS,
                    LUT_RANGE_IDX_TO_PRIVATE_OBS_PF, LUT_HOLE_CARDS_2_IDX,
                    LUT_CARD_IN_WHAT_RANGE_IDXS, DICT_LUT_N_BOARDS, DICT_LUT_N_CARDS_OUT,
                    DICT_LUT_CARDS_DEALT_IN_TRANSITION_TO, DICT_LUT_N_BOARD_BRANCHES,
                    pc, op, arg, ret, indexed >>

\* the caller drops the result and is free to call again
Release ==
    /\ pc = "returned"
    /\ pc' = "idle"
    /\ op' = "none"
    /\ arg' = << >>
    /\ ret' = NoRet
    /\ indexed' = {}
    /\ nwrites' = 0
    /\ UNCHANGED << phase, rules, error, tables >>

Next ==
    \/ Construct
    \/ Call_get_1d_card
    \/ Call_get_1d_cards
    \/ Call_get_2d_cards
    \/ Call_get_range_idx_from_hole_cards
    \/ Call_get_2d_hole_cards_from_range_idx
    \/ Call_get_1d_hole_cards_from_range_idx
    \/ CallerWrite
    \/ Release

Spec == Init /\ [][Next]_vars
SpecAnyRules == InitAnyRules /\ [][Next]_vars

\* ======================================================= properties
\* n choose k by Pascal's rule, the reference the claims are stated with
RECURSIVE Binom(_, _)
Binom(n, k) ==
    IF k < 0 \/ k > n THEN 0
    ELSE IF k = 0 \/ k = n THEN 1
    ELSE Binom(n - 1, k - 1) + Binom(n - 1, k)

\* the store is built and no call is outstanding
AtRest == phase = "ready" /\ pc = "idle"
RangeIdxs == 0..(rules.RANGE_SIZE - 1)
\* the subscript of the forward table for a row of card ids
ForwardIndex(row) == IF rules.variant = "Leduc" THEN <<row[1], 0>> ELSE row
LexLess(a, b) == \E j \in 1..Len(a) : a[j] < b[j] /\ \A m \in 1..(j - 1) : a[m] = b[m]

\* C1: in every variant, every range index i survives the trip to hole cards
\* and back: get_range_idx_from_hole_cards(get_2d_hole_cards_from_range_idx(i))
\* is i (for the built tables, and for the array a call actually returned), and
\* the forward table at the row get_1d_hole_cards_from_range_idx(i) is i.
C1_RangeIdxRoundTrip ==
    /\ AtRest =>
          \A i \in RangeIdxs :
             /\ get_range_idx_from_hole_cards(get_2d_hole_cards_from_range_idx(i).val).val = i
             /\ LUT_HOLE_CARDS_2_IDX[ForwardIndex(get_1d_hole_cards_from_range_idx(i).val)] = i
    /\ (phase = "ready" /\ op = "get_2d_hole_cards_from_range_idx") =>
          get_range_idx_from_hole_cards(ret.val).val = arg
    /\ (phase = "ready" /\ op = "get_1d_hole_cards_from_range_idx") =>
          LUT_HOLE_CARDS_2_IDX[ForwardIndex(ret.val)] = arg

\* the four-card store returned the last range index for the 2D cards of its row
C1_Witness ==
    /\ phase = "ready"
    /\ rules.variant = "PLO"
    /\ op = "get_range_idx_from_hole_cards"
    /\ arg = get_2d_hole_cards_from_range_idx(rules.RANGE_SIZE - 1).val
    /\ ret.val = rules.RANGE_SIZE - 1
    /\ ret.val > 0

\* C2: the 1D-card and 2D-card tables are total and mutually inverse, neither
\* keeps a fill value -2, and get_1d_card answers from the 2D -> 1D table.
C2_CardTablesInverse ==
    /\ AtRest =>
          /\ DOMAIN LUT_1DCARD_2_2DCARD = Cards1D(rules)
          /\ DOMAIN LUT_2DCARD_2_1DCARD = Cards2D(rules)
          /\ \A card1d \in Cards1D(rules) :
                /\ FILL_VALUE \notin Range(LUT_1DCARD_2_2DCARD[card1d])
                /\ LUT_1DCARD_2_2DCARD[card1d] \in Cards2D(rules)
                /\ LUT_2DCARD_2_1DCARD[LUT_1DCARD_2_2DCARD[card1d]] = card1d
          /\ \A rs \in Cards2D(rules) :
                /\ LUT_2DCARD_2_1DCARD[rs] # FILL_VALUE
                /\ LUT_2DCARD_2_1DCARD[rs] \in Cards1D(rules)
                /\ LUT_1DCARD_2_2DCARD[LUT_2DCARD_2_1DCARD[rs]] = rs
    /\ (phase = "ready" /\ op = "get_1d_card" /\ arg # CARD_NOT_DEALT_TOKEN_2D) =>
          /\ ret.val \in Cards1D(rules)
          /\ LUT_1DCARD_2_2DCARD[ret.val] = arg

\* the single-card store converted its last 2D card (2, 1) to the last 1D id
C2_Witness ==
    /\ phase = "ready"
    /\ rules.variant = "Leduc"
    /\ op = "get_1d_card"
    /\ arg = <<2, 1>>
    /\ ret.val = 5

\* C3: for every 1D card c the membership row has exactly
\* C(N_CARDS_IN_DECK - 1, N_HOLE_CARDS - 1) entries, none of them -2, every
\* entry is a range index whose hole cards hold c, and every range index
\* whose hole cards hold c is listed exactly once.
C3_MembershipRows ==
    AtRest =>
       \A c \in Cards1D(rules) :
          LET row == LUT_CARD_IN_WHAT_RANGE_IDXS[c] IN
          /\ Len(row) = Binom(rules.N_CARDS_IN_DECK - 1, rules.N_HOLE_CARDS - 1)
          /\ \A n \in 1..Len(row) :
                /\ row[n] # FILL_VALUE
                /\ row[n] \in RangeIdxs
                /\ c \in Range(LUT_IDX_2_HOLE_CARDS[row[n]])
          /\ \A i \in RangeIdxs :
                c \in Range(LUT_IDX_2_HOLE_CARDS[i]) =>
                   Cardinality({n \in 1..Len(row) : row[n] = i}) = 1

\* the four-card store is built and the row of the last card lists several hands
C3_Witness ==
    /\ AtRest
    /\ rules.variant = "PLO"
    /\ Len(LUT_CARD_IN_WHAT_RANGE_IDXS[rules.N_CARDS_IN_DECK - 1]) = PLO_MEMBERSHIP_WIDTH
    /\ PLO_MEMBERSHIP_WIDTH > 1
    /\ LUT_CARD_IN_WHAT_RANGE_IDXS[rules.N_CARDS_IN_DECK - 1][PLO_MEMBERSHIP_WIDTH]
          = rules.RANGE_SIZE - 1

\* the slots of a row's observation the layout sets to 1: in block c_id the
\* rank slot of hole card c_id and, when suits count, its suit slot
ExpectedSlots(i, with_suits) ==
    LET D == rules.N_RANKS + rules.N_SUITS IN
    UNION { LET card == LUT_1DCARD_2_2DCARD[LUT_IDX_2_HOLE_CARDS[i][c_id + 1]] IN
            {D * c_id + card[1]}
               \cup (IF with_suits THEN {D * c_id + rules.N_RANKS + card[2]} ELSE {})
            : c_id \in 0..(rules.N_HOLE_CARDS - 1) }

OneHotRows(lut, with_suits) ==
    /\ DOMAIN lut = RangeIdxs
    /\ \A i \in RangeIdxs :
          /\ DOMAIN lut[i] = 0..(rules.N_HOLE_CARDS * (rules.N_RANKS + rules.N_SUITS) - 1)
          /\ \A s \in DOMAIN lut[i] :
                lut[i][s] = IF s \in ExpectedSlots(i, with_suits) THEN 1 ELSE 0

\* C4: in every variant each row of the private observation table has, per
\* hole-card block, the card's rank slot at 1, its suit slot at 1 when suits
\* matter and the table is not the bucketed one, and every other slot at 0.
C4_PrivateObsOneHot ==
    AtRest =>
       /\ OneHotRows(LUT_RANGE_IDX_TO_PRIVATE_OBS, rules.SUITS_MATTER)
       /\ OneHotRows(LUT_RANGE_IDX_TO_PRIVATE_OBS_PF, FALSE)

\* C5: get_1d_cards and get_2d_cards keep the array's length, pass a "not
\* dealt" element through unchanged, convert every other element as the
\* single-card table does, and never subscript a table with the sentinel;
\* get_1d_card returns the sentinel for the sentinel pair without a lookup.
C5_SentinelPassThrough ==
    phase = "ready" =>
       /\ op = "get_1d_cards" =>
             /\ Len(ret.val) = Len(arg)
             /\ \A i \in 1..Len(arg) :
                   ret.val[i] = IF arg[i] = CARD_NOT_DEALT_TOKEN_2D
                                THEN CARD_NOT_DEALT_TOKEN_1D
                                ELSE LUT_2DCARD_2_1DCARD[arg[i]]
             /\ \A ix \in indexed : CARD_NOT_DEALT_TOKEN_1D \notin Range(ix)
       /\ op = "get_2d_cards" =>
             /\ Len(ret.val) = Len(arg)
             /\ \A i \in 1..Len(arg) :
                   ret.val[i] = IF arg[i] = CARD_NOT_DEALT_TOKEN_1D
                                THEN CARD_NOT_DEALT_TOKEN_2D
                                ELSE LUT_1DCARD_2_2DCARD[arg[i]]
             /\ CARD_NOT_DEALT_TOKEN_1D \notin indexed
       /\ (op = "get_1d_card" /\ arg = CARD_NOT_DEALT_TOKEN_2D) =>
             /\ ret.val = CARD_NOT_DEALT_TOKEN_1D
             /\ indexed = {}

\* a batch holding a sentinel and then a card came back as sentinel, card id
C5_Witness ==
    /\ phase = "ready"
    /\ op = "get_1d_cards"
    /\ arg = <<CARD_NOT_DEALT_TOKEN_2D, <<1, 1>> >>
    /\ ret.val = <<CARD_NOT_DEALT_TOKEN_1D, rules.N_SUITS + 1>>
    /\ indexed = {<<0, 0>>, <<1, 1>>}

\* board cards revealed through round r, from the rules
BoardCardsThrough(r) ==
    (IF r >= FLOP THEN rules.N_FLOP_CARDS ELSE 0)
      + (IF r >= TURN THEN rules.N_TURN_CARDS ELSE 0)
      + (IF r >= RIVER THEN rules.N_RIVER_CARDS ELSE 0)
\* board cards dealt in the transition into round r, from the rules
BoardCardsInto(r) == BoardCardsThrough(r) - (IF r = PREFLOP THEN 0 ELSE BoardCardsThrough(r - 1))
Rounds == Range(rules.ALL_ROUNDS_LIST)

\* C6: for every round r the board count is C(n, k), k the board cards
\* revealed through r and n the deck without the hole cards and without the
\* board cards dealt before r.
C6_NBoards ==
    AtRest =>
       \A r \in Rounds :
          DICT_LUT_N_BOARDS[r] =
             Binom(rules.N_CARDS_IN_DECK - rules.N_HOLE_CARDS
                      - (BoardCardsThrough(r) - BoardCardsInto(r)),
                   BoardCardsThrough(r))

\* C7: the range index -> hole cards table has C(N_CARDS_IN_DECK,
\* N_HOLE_CARDS) = RANGE_SIZE rows, its rows are the strictly ascending
\* tuples of card ids in lexicographic order, from (0, .., k-1) to
\* (N-k, .., N-1), and the forward table numbers the tuples in that order.
C7_LexicographicRows ==
    AtRest =>
       LET N == rules.N_CARDS_IN_DECK
           k == rules.N_HOLE_CARDS
       IN /\ rules.RANGE_SIZE = Binom(N, k)
          /\ DOMAIN LUT_IDX_2_HOLE_CARDS = 0..(Binom(N, k) - 1)
          /\ \A i \in DOMAIN LUT_IDX_2_HOLE_CARDS :
                LET row == LUT_IDX_2_HOLE_CARDS[i] IN
                /\ Len(row) = k
                /\ \A j \in 1..k : row[j] \in 0..(N - 1)
                /\ \A j \in 1..(k - 1) : row[j] < row[j + 1]
                /\ i > 0 => LexLess(LUT_IDX_2_HOLE_CARDS[i - 1], row)
                /\ LUT_HOLE_CARDS_2_IDX[ForwardIndex(row)] = i
          /\ LUT_IDX_2_HOLE_CARDS[0] = [j \in 1..k |-> j - 1]
          /\ LUT_IDX_2_HOLE_CARDS[Binom(N, k) - 1] = [j \in 1..k |-> N - k + j - 1]

\* the four-card store handed out its last row, the k highest card ids
C7_Witness ==
    /\ phase = "ready"
    /\ rules.variant = "PLO"
    /\ op = "get_1d_hole_cards_from_range_idx"
    /\ arg = rules.RANGE_SIZE - 1
    /\ arg > 1
    /\ ret.val = [j \in 1..4 |-> rules.N_CARDS_IN_DECK - 4 + j - 1]

\* C8: once the store is built, no query and no caller write into a returned
\* array changes a cached table.
C8_TablesNeverChange == [][phase = "ready" => tables' = tables]_vars

\* a caller wrote into the row that get_1d_hole_cards_from_range_idx returned
C8_Witness ==
    /\ phase = "ready"
    /\ op = "get_1d_hole_cards_from_range_idx"
    /\ nwrites > 0
    /\ ret.val = LUT_IDX_2_HOLE_CARDS[arg]

AllUnbuilt == \A n \in 1..Len(tables) : tables[n] = Unbuilt

\* C9: from inconsistent rules, construction ends in a reported error before
\* any table is built.
C9_InconsistentRulesRejected ==
    (~RulesConsistent(rules) /\ phase # "new") =>
        /\ phase = "failed"
        /\ error # "none"
        /\ AllUnbuilt

\* C10: the branch table maps PREFLOP to 0 and every other round r to
\* C(N_CARDS_IN_DECK - N_HOLE_CARDS - board cards through ROUND_BEFORE[r],
\*   cards dealt in the transition into r).
C10_BoardBranches ==
    AtRest =>
       /\ DICT_LUT_N_BOARD_BRANCHES[PREFLOP] = 0
       /\ DOMAIN DICT_LUT_N_BOARD_BRANCHES = {PREFLOP} \cup Rounds
       /\ \A r \in Rounds \ {PREFLOP} :
             DICT_LUT_N_BOARD_BRANCHES[r] =
                Binom(rules.N_CARDS_IN_DECK - rules.N_HOLE_CARDS
                         - BoardCardsThrough(ROUND_BEFORE(r)),
                      BoardCardsInto(r))

\* the two-card store is built; its turn has as many branches as cards are
\* left after the hole cards and the flop, its flop more than one
C10_Witness ==
    /\ AtRest
    /\ rules.variant = "Holdem"
    /\ DICT_LUT_N_BOARD_BRANCHES[FLOP] > 1
    /\ DICT_LUT_N_BOARD_BRANCHES[TURN] = rules.N_CARDS_IN_DECK - 2 - 3
    /\ DICT_LUT_N_BOARD_BRANCHES[TURN] > 1
    /\ DICT_LUT_N_BOARD_BRANCHES[RIVER] = DICT_LUT_N_BOARD_BRANCHES[TURN] - 1

\* the 1D ids of the cards of a hand, by the store's 2D -> 1D table
HandIds(h) == {LUT_2DCARD_2_1DCARD[<<h[j][1], h[j][2]>>] : j \in 1..Len(h)}
\* every ordering of the rows of a hand
Reorderings(h) == {[j \in 1..Len(h) |-> h[p[j]]] : p \in Permutations(1..Len(h))}

\* C11: in the two-card and four-card stores get_range_idx_from_hole_cards does
\* not depend on the order of the rows of hole_cards_2d: for every legal hand
\* of distinct cards it returns the range index whose row is the ascending
\* tuple of the hand's 1D card ids, and every reordering of the same cards
\* returns that same index.
C11_HoleCardOrderIrrelevant ==
    (/\ phase = "ready"
     /\ pc = "returned"
     /\ op = "get_range_idx_from_hole_cards"
     /\ rules.variant \in {"Holdem", "PLO"}) =>
        LET row == LUT_IDX_2_HOLE_CARDS[ret.val]
        IN /\ ret.val \in RangeIdxs
           /\ Len(row) = rules.N_HOLE_CARDS
           /\ \A j \in 1..(Len(row) - 1) : row[j] < row[j + 1]
           /\ Range(row) = HandIds(arg)
           /\ \A h \in Reorderings(arg) :
                 get_range_idx_from_hole_cards(h).val = ret.val

\* the four-card store was asked for a hand whose rows come in descending
\* order of card id and answered with the index of the ascending tuple
C11_Witness ==
    /\ phase = "ready"
    /\ pc = "returned"
    /\ rules.variant = "PLO"
    /\ op = "get_range_idx_from_hole_cards"
    /\ \A j \in 1..3 : LUT_2DCARD_2_1DCARD[<<arg[j][1], arg[j][2]>>]
                          > LUT_2DCARD_2_1DCARD[<<arg[j + 1][1], arg[j + 1][2]>>]
    /\ ret.val > 0
    /\ Range(LUT_IDX_2_HOLE_CARDS[ret.val]) = HandIds(arg)

====
